---- MODULE Spec2Model ----
(***************************************************************************)
(* The JNI boundary layer of neural-search's native VSAG service:          *)
(*   src/jni/src/jni_util.cpp                                 (JNIUtil)    *)
(*   src/jni/src/org_opensearch_neuralsearch_jni_NativeVsagService.cpp     *)
(*                                                                         *)
(* Every exported operation is one action.  The body of an operation is    *)
(* run by threading a machine record m through its statements in source    *)
(* order: m.exc is the C++ exception in flight (a statement is skipped     *)
(* while one is in flight), m.log is the ordered list of everything the    *)
(* call did to the managed runtime, the native heap, the file system and   *)
(* the index library, m.pend the managed exceptions raised on the JVM      *)
(* side.  The managed runtime, the allocator and the index library are     *)
(* external: what they answer (a failed allocation, a structured error, a  *)
(* thrown exception) is an input of the action.                            *)
(***************************************************************************)
EXTENDS Integers, Sequences, FiniteSets, TLC

\* ------------------------------------------------------------- bounds
\* Addresses the allocator can hand out for the heap box of a handle.
MaxAddr == 2
\* Deallocations of one address the model follows (the code has no limit).
MaxDeallocs == 2
\* Records of a managed dataset.
MaxN == 2
\* Entries of one sparse vector.
MaxLen == 2
\* Results of one search.
MaxK == 2

Addrs == 1..MaxAddr
Handles == 0..MaxAddr

\* ------------------------------------------------- managed type names
IOExceptionCls == "java/io/IOException"
ExceptionCls == "java/lang/Exception"
SparseVectorCls == "org/opensearch/neuralsearch/jni/VsagSparseVector"
SearchResultCls == "org/opensearch/neuralsearch/jni/VsagSearchResult"
DatasetCls == "org/opensearch/neuralsearch/jni/VsagDataset"
OutOfMemoryCls == "java/lang/OutOfMemoryError"

\* std::string key = className + ":" + methodName   (FindMethod, Initialize)
MethodKey(cls, name) == cls \o ":" \o name

VARIABLES
    phase,          \* "init" | "loaded" | "unloaded": JNI_OnLoad / JNI_OnUnload
    cachedClasses,  \* JNIUtil::cachedClasses: class name -> global reference
    cachedMethods,  \* JNIUtil::cachedMethods: the registered method keys
    globalRefs,     \* global references the JVM holds for this library
    heap,           \* address -> "unalloc" | "live" | "freed" (shared_ptr box)
    deallocs,       \* address -> deletes of the box at it since it was allocated
    cleanups,       \* address -> cleanup calls naming it since it was allocated
    crashed,        \* the process died of undefined behaviour
    last            \* what the last operation was given, did and returned

vars == <<phase, cachedClasses, cachedMethods, globalRefs, heap, deallocs,
          cleanups, crashed, last>>

\* ------------------------------------------------------ C++ exceptions
None == [type |-> "none", msg |-> ""]
Exc(t, msg) == [type |-> t, msg |-> msg]

\* The base class of each exception type the layer and the library throw;
\* "nonstd" is a thrown value that is no std::exception.
Parent(t) ==
    CASE t = "bad_array_new_length" -> "bad_alloc"
      [] t = "bad_alloc" -> "exception"
      [] t = "system_error" -> "runtime_error"
      [] t = "runtime_error" -> "exception"
      [] t = "invalid_argument" -> "logic_error"
      [] t = "logic_error" -> "exception"
      [] OTHER -> "none"

RECURSIVE IsA(_, _)
\* A catch (const T&) clause matches the type and everything derived from it.
IsA(t, base) ==
    IF t = base THEN TRUE
    ELSE IF Parent(t) = "none" THEN FALSE
    ELSE IsA(Parent(t), base)

\* ------------------------------------------------------------- events
Ev(k, a, n, s) == [k |-> k, a |-> a, n |-> n, s |-> s]

\* A managed exception raised on the JVM side.
Managed(cls, msg) == [cls |-> cls, msg |-> msg]

\* -------------------------------------------------------- the machine
EmptyDataset == [made |-> FALSE, numElements |-> 0, sv |-> <<>>, ids |-> <<>>,
                 owner |-> FALSE]

M0(classes, methods) ==
    [exc |-> None, crash |-> FALSE, log |-> <<>>, pend |-> <<>>,
     classes |-> classes, methods |-> methods,
     str |-> "", sv |-> <<>>, docIds |-> <<>>, native |-> EmptyDataset,
     stream |-> "none", arr |-> <<>>, box |-> 0]

Running(m) == m.exc = None /\ ~m.crash

Emit(m, ev) == IF Running(m) THEN [m EXCEPT !.log = Append(@, ev)] ELSE m

Throw(m, e) == IF Running(m) THEN [m EXCEPT !.exc = e] ELSE m

\* The JVM raises a managed exception of its own inside a JNI call.
JvmRaise(m, cls) ==
    IF Running(m) THEN [m EXCEPT !.pend = Append(@, Managed(cls, ""))] ELSE m

\* A fault the environment injects into one step of a call: at names the
\* step, n the occurrence (the ordinal of the string, the element index).
Fault(at, n) == [at |-> at, n |-> n]
NoFault == Fault("none", 0)

\* ------------------------------------------------- Exception Translator
\* env->FindClass(type); ThrowNew only when the class resolved, otherwise the
\* JVM itself has raised NoClassDefFoundError.
ThrowJavaException(m, type, message, loadable) ==
    IF loadable
    THEN [m EXCEPT !.log = @ \o <<Ev("jni", "FindClass", 0, type),
                                  Ev("ThrowNew", type, 0, message),
                                  Ev("jni", "DeleteLocalRef", 0, type)>>,
                   !.pend = Append(@, Managed(type, message))]
    ELSE [m EXCEPT !.log = Append(@, Ev("jni", "FindClass", 0, type)),
                   !.pend = Append(@, Managed("java/lang/NoClassDefFoundError", type))]

\* The classes the JVM can resolve by name: both exception classes are core
\* classes of every JVM.
Loadable(type) == type \in {IOExceptionCls, ExceptionCls}

\* HasExceptionInStack(env, message): env->ExceptionCheck()
HasExceptionInStack(m, message) ==
    LET m1 == Emit(m, Ev("CheckPending", "ExceptionCheck", 0, message))
    IN IF Running(m1) /\ m1.pend # <<>>
       THEN Throw(m1, Exc("runtime_error", message))
       ELSE m1

\* A translation that tests the catch clauses in the wrong order.
CatchClauseBaseFirst(e) ==
    IF IsA(e.type, "exception") THEN Managed(ExceptionCls, e.msg)
    ELSE Managed(ExceptionCls, "Unknown exception occurred")

\* The catch clauses of CatchCppExceptionAndThrowJava, tested in order.
CatchClause(e) ==
    IF IsA(e.type, "bad_alloc") THEN Managed(IOExceptionCls, e.msg)
    ELSE IF IsA(e.type, "runtime_error") THEN Managed(ExceptionCls, e.msg)
    ELSE IF IsA(e.type, "exception") THEN Managed(ExceptionCls, e.msg)
    ELSE Managed(ExceptionCls, "Unknown exception occurred")

\* try { throw; } catch ...: rethrows the exception in flight and raises
\* its managed counterpart; the exception is handled afterwards.
CatchCppExceptionAndThrowJava(m) ==
    LET x == CatchClause(m.exc)
    IN ThrowJavaException([m EXCEPT !.exc = None], x.cls, x.msg, Loadable(x.cls))

\* ------------------------------------------------------ Descriptor Cache
ClassesToCache == {IOExceptionCls, ExceptionCls, SparseVectorCls,
                   SearchResultCls, DatasetCls}

MethodsToCache ==
    {MethodKey(SparseVectorCls, "getLength"), MethodKey(SparseVectorCls, "getIds"),
     MethodKey(SparseVectorCls, "getValues"), MethodKey(SparseVectorCls, "getDocId"),
     MethodKey(SearchResultCls, "<init>"), MethodKey(DatasetCls, "getSparseVectors")}

\* An Initialize that forgets one accessor of the sparse-vector type.
InitializeMethodsMissingOne == MethodsToCache \ {MethodKey(SparseVectorCls, "getDocId")}

\* The method keys JNIUtil::Initialize registers.
InitializeMethods == MethodsToCache

\* The class keys JNIUtil::Initialize registers, each with its global reference.
InitializeClasses == [c \in ClassesToCache |-> c]

NoClasses == [c \in {} |-> c]

\* JNIUtil::FindClass
FindClass(m, className) ==
    IF ~Running(m) THEN m
    ELSE IF className \notin DOMAIN m.classes
    THEN Throw(Emit(m, Ev("FindClass", className, 0, "")),
               Exc("runtime_error", "Unable to load class \"" \o className \o "\""))
    ELSE Emit(m, Ev("FindClass", className, 1, ""))

\* JNIUtil::FindMethod
FindMethod(m, className, methodName) ==
    IF ~Running(m) THEN m
    ELSE IF MethodKey(className, methodName) \notin m.methods
    THEN Throw(Emit(m, Ev("FindMethod", className, 0, methodName)),
               Exc("runtime_error", "Unable to find \"" \o methodName \o "\" method"))
    ELSE Emit(m, Ev("FindMethod", className, 1, methodName))

\* -------------------------------------------------------- Value Marshaller
NullStr == [null |-> TRUE, chars |-> ""]
JStr(s) == [null |-> FALSE, chars |-> s]

StringMsg == "Unable to convert java string to cpp string"

\* std::string cppString(cString); env->ReleaseStringUTFChars(...): the copy
\* allocates and may throw, and then the release is not reached.
StringCopy(m, chars, k, fault) ==
    IF ~Running(m) THEN m
    ELSE IF fault = Fault("str_alloc", k)
    THEN Throw(m, Exc("bad_alloc", "std::bad_alloc"))
    ELSE Emit([m EXCEPT !.str = chars], Ev("release", "chars", k, ""))

\* JNIUtil::ConvertJavaStringToCppString, for the k-th string of a call.
ConvertJavaStringToCppString(m, javaString, k, fault) ==
    IF ~Running(m) THEN m
    ELSE IF javaString.null
    THEN Throw(m, Exc("runtime_error", "String cannot be null"))
    ELSE LET m1 == Emit(m, Ev("jni", "GetStringUTFChars", k, ""))
         IN IF fault \in {Fault("utf_oom", k), Fault("utf_null", k)}
            THEN \* cString == nullptr
                 LET m2 == IF fault.at = "utf_oom" THEN JvmRaise(m1, OutOfMemoryCls)
                           ELSE m1
                 IN Throw(HasExceptionInStack(m2, StringMsg),
                          Exc("runtime_error", StringMsg))
            ELSE StringCopy(Emit(m1, Ev("acquire", "chars", k, "")),
                            javaString.chars, k, fault)

\* JNIUtil::ConvertCppLongArrayToJavaLongArray
ConvertCppLongArrayToJavaLongArray(m, longArray, fault) ==
    IF ~Running(m) THEN m
    ELSE LET m1 == Emit(m, Ev("jni", "NewLongArray", Len(longArray), ""))
         IN IF fault.at = "new_long_array"
            THEN Throw(JvmRaise(m1, OutOfMemoryCls), Exc("bad_alloc", "std::bad_alloc"))
            ELSE LET m2 == IF longArray # <<>>
                           THEN Emit(m1, Ev("jni", "SetLongArrayRegion", Len(longArray), ""))
                           ELSE m1
                 IN [m2 EXCEPT !.arr = longArray]

\* ------------------------------------------------------------ Dataset Codec
\* A managed sparse-vector record, as its accessors answer.
Rec(docId, length, ids, vals) ==
    [docId |-> docId, length |-> length, ids |-> ids, vals |-> vals]

\* An unsigned 32-bit value as its two 16-bit halves.
U32(hi, lo) == [hi |-> hi, lo |-> lo]

\* static_cast<uint32_t>(jint): the value modulo 2^32.
ToU32(v) ==
    IF v >= 0 THEN U32(v \div 65536, v % 65536)
    ELSE LET w == (v + 2147483647) + 1     \* v + 2^31, in 0 .. 2^31 - 1
         IN U32(32768 + (w \div 65536), w % 65536)

\* What a local reference handed back in place of a long looks like.
RefBits(i) == 4096 + 8 * i

\* (jlong)env->CallObjectMethod(jSV, getDocId) on a method that returns a
\* long ("()J"): the JNI leaves the result of a Call<Type>Method of another
\* type undefined.  A JVM either passes the raw long through or treats the
\* result as an object and hands back a reference.
CallObjectMethodForLong(value, i, abi) ==
    IF abi = "raw" THEN value ELSE RefBits(i)

\* new T[size]
New(m, what, i, size, fault) ==
    IF ~Running(m) THEN m
    ELSE IF size < 0
    THEN Throw(m, Exc("bad_array_new_length", "std::bad_array_new_length"))
    ELSE IF fault = Fault("alloc_" \o what, i)
    THEN Throw(m, Exc("bad_alloc", "std::bad_alloc"))
    ELSE Emit(m, Ev("new", what, i, ""))

\* for (int j = 0; j < len; ++j) { ids_[j] = static_cast<uint32_t>(idsElems[j]);
\*                                 vals_[j] = valsElems[j]; }
CopyElements(m, rec, i) ==
    IF ~Running(m) THEN m
    ELSE [m EXCEPT !.sv[i].ids = [j \in 1..rec.length |-> ToU32(rec.ids[j])],
                   !.sv[i].vals = [j \in 1..rec.length |-> rec.vals[j]]]

SetLen(m, i, len) == IF Running(m) THEN [m EXCEPT !.sv[i].len = len] ELSE m

SetDocId(m, i, id) == IF Running(m) THEN [m EXCEPT !.docIds[i] = id] ELSE m

\* One iteration of the loop of ConvertJavaDatasetToCppDatasetPtr.
DecodeElement(m, rec, i, fault, abi) ==
    LET m1 == Emit(m, Ev("acquire", "jSV", i, ""))
        m2 == Emit(m1, Ev("jni", "CallIntMethod:getLength", i, ""))
        m3 == Emit(m2, Ev("acquire", "jIds", i, ""))
        m4 == Emit(m3, Ev("acquire", "jValues", i, ""))
        m5 == Emit(m4, Ev("jni", "CallObjectMethod:getDocId", i, ""))
        m6 == SetLen(m5, i, rec.length)
        m7 == New(m6, "ids_", i, rec.length, fault)
        m8 == New(m7, "vals_", i, rec.length, fault)
        m9 == SetDocId(m8, i, CallObjectMethodForLong(rec.docId, i, abi))
        m10 == Emit(m9, Ev("acquire", "idsElems", i, ""))
        m11 == Emit(m10, Ev("acquire", "valsElems", i, ""))
        m12 == CopyElements(m11, rec, i)
        m13 == Emit(m12, Ev("release", "idsElems", i, ""))
        m14 == Emit(m13, Ev("release", "valsElems", i, ""))
        m15 == Emit(m14, Ev("release", "jSV", i, ""))
        m16 == Emit(m15, Ev("release", "jIds", i, ""))
    IN Emit(m16, Ev("release", "jValues", i, ""))

RECURSIVE DecodeLoop(_, _, _, _, _)
\* for (jsize i = 0; i < numElements; ++i)
DecodeLoop(m, jDataset, i, fault, abi) ==
    IF i > Len(jDataset) \/ ~Running(m) THEN m
    ELSE DecodeLoop(DecodeElement(m, jDataset[i], i, fault, abi),
                    jDataset, i + 1, fault, abi)

\* The value-initialised element of new vsag::SparseVector[n].
EmptySparseVector == [len |-> 0, ids |-> <<>>, vals |-> <<>>]

\* new vsag::SparseVector[numElements]; new int64_t[numElements]
AllocateArrays(m, numElements, fault) ==
    LET m1 == New(m, "svVec", 0, numElements, fault)
        m2 == New(m1, "docIds", 0, numElements, fault)
    IN IF Running(m2)
       THEN [m2 EXCEPT !.sv = [i \in 1..numElements |-> EmptySparseVector],
                       !.docIds = [i \in 1..numElements |-> 0]]
       ELSE m2

\* Dataset::Make(); NumElements(n)->SparseVectors(svVec)->Ids(docIds)->Owner(true)
MakeDataset(m, numElements) ==
    IF Running(m)
    THEN [m EXCEPT !.native = [made |-> TRUE, numElements |-> numElements,
                               sv |-> m.sv, ids |-> m.docIds, owner |-> TRUE]]
    ELSE m

\* JNIUtil::ConvertJavaDatasetToCppDatasetPtr
ConvertJavaDatasetToCppDatasetPtr(m, jDataset, fault, abi) ==
    LET m1 == FindClass(m, DatasetCls)
        m2 == FindMethod(m1, DatasetCls, "getSparseVectors")
        m3 == Emit(m2, Ev("jni", "CallObjectMethod:getSparseVectors", 0, ""))
        m4 == Emit(m3, Ev("jni", "GetArrayLength", 0, ""))
        m5 == AllocateArrays(m4, Len(jDataset), fault)
        m6 == FindClass(m5, SparseVectorCls)
        m7 == FindMethod(m6, SparseVectorCls, "getLength")
        m8 == FindMethod(m7, SparseVectorCls, "getIds")
        m9 == FindMethod(m8, SparseVectorCls, "getValues")
        m10 == FindMethod(m9, SparseVectorCls, "getDocId")
    IN MakeDataset(DecodeLoop(m10, jDataset, 1, fault, abi), Len(jDataset))

\* A managed Result Record, or the null a slot holds before it is set.
NullObj == [null |-> TRUE, id |-> 0, score |-> 0]
ResultObj(id, score) == [null |-> FALSE, id |-> id, score |-> score]

\* A native result Dataset: GetDim() results, GetIds(), GetDistances().
ResultDataset(ids, distances) ==
    [dim |-> Len(ids), ids |-> ids, distances |-> distances]

\* A score that passes the distance through.
ScoreOfDistanceRaw(distance) == distance

\* 1 - static_cast<jfloat>(distances[i])
ScoreOfDistance(distance) == 1 - distance

\* One iteration of the fill loop of ConvertCppSearchResultsToJava: NewObject
\* is not checked, so a failed construction stores null; the next JNI call
\* is then made with an exception pending, which the JNI leaves undefined.
EncodeElement(m, result, i, fault, ub) ==
    IF ~Running(m) THEN m
    ELSE LET m1 == Emit(m, Ev("jni", "NewObject", i, ""))
             failed == fault = Fault("new_object", i)
             m2 == IF failed THEN JvmRaise(m1, OutOfMemoryCls) ELSE m1
             jRes == IF failed THEN NullObj
                     ELSE ResultObj(result.ids[i], ScoreOfDistance(result.distances[i]))
         IN IF m2.pend # <<>> /\ ub = "crash"
            THEN [m2 EXCEPT !.crash = TRUE]
            ELSE [Emit(m2, Ev("jni", "SetObjectArrayElement", i, ""))
                    EXCEPT !.arr[i] = jRes]

RECURSIVE EncodeLoop(_, _, _, _, _)
\* for (jsize i = 0; i < numResults; ++i)
EncodeLoop(m, result, i, fault, ub) ==
    IF i > result.dim \/ ~Running(m) THEN m
    ELSE EncodeLoop(EncodeElement(m, result, i, fault, ub), result, i + 1, fault, ub)

\* JNIUtil::ConvertCppSearchResultsToJava
ConvertCppSearchResultsToJava(m, result, fault, ub) ==
    LET m1 == FindClass(m, SearchResultCls)
        m2 == FindMethod(m1, SearchResultCls, "<init>")
        m3 == Emit(m2, Ev("jni", "NewObjectArray", result.dim, ""))
        m4 == IF fault.at = "new_object_array"
              THEN Throw(JvmRaise(m3, OutOfMemoryCls),
                         Exc("runtime_error", "Failed to allocate VsagSearchResult array"))
              ELSE IF Running(m3)
              THEN [m3 EXCEPT !.arr = [i \in 1..result.dim |-> NullObj]]
              ELSE m3
    IN EncodeLoop(m4, result, 1, fault, ub)

\* ----------------------------------------------------------- Handle Manager
\* A resolve that accepts the zero handle.
GetIndexPtrUnchecked(m, jIndexPtr, heapNow, ub) ==
    IF ~Running(m) THEN m
    ELSE IF jIndexPtr # 0 /\ heapNow[jIndexPtr] # "live" /\ ub = "crash"
    THEN [m EXCEPT !.crash = TRUE]
    ELSE Emit(m, Ev("deref", "box", jIndexPtr, ""))

\* GetIndexPtr: the zero handle is refused; any other is dereferenced as it
\* is (sharedIndexPtr->get()), which is undefined for a box already deleted.
GetIndexPtr(m, jIndexPtr, heapNow, ub) ==
    IF ~Running(m) THEN m
    ELSE IF jIndexPtr = 0
    THEN Throw(m, Exc("runtime_error", "Invalid native index pointer (nullptr)"))
    ELSE IF heapNow[jIndexPtr] # "live" /\ ub = "crash"
    THEN [m EXCEPT !.crash = TRUE]
    ELSE Emit(m, Ev("deref", "box", jIndexPtr, ""))

\* ------------------------------------------------------- the index library
LibMsg == "E"

LibThrows == {"lib_bad_alloc", "lib_system_error", "lib_invalid_argument", "lib_nonstd"}

LibThrowType(fault) ==
    CASE fault.at = "lib_bad_alloc" -> "bad_alloc"
      [] fault.at = "lib_system_error" -> "system_error"
      [] fault.at = "lib_invalid_argument" -> "invalid_argument"
      [] OTHER -> "nonstd"

\* A call into the index library: it returns (a value or a structured
\* error, which the caller inspects) or throws.
LibCall(m, fn, fault) ==
    IF ~Running(m) THEN m
    ELSE IF fault.at \in LibThrows
    THEN Throw(Emit(m, Ev("lib", fn, 0, "")), Exc(LibThrowType(fault), LibMsg))
    ELSE Emit(m, Ev("lib", fn, 0, ""))

\* if (!result) throw std::runtime_error(prefix + result.error().message)
ThrowIfError(m, fault, prefix) ==
    IF fault.at = "lib_err" THEN Throw(m, Exc("runtime_error", prefix \o LibMsg)) ELSE m

\* The buffers a Dataset that owns them frees when it is destroyed.
FreeEvents(n) ==
    [j \in 1..(2 * n + 2) |->
        IF j = 2 * n + 1 THEN Ev("free", "svVec", 0, "")
        ELSE IF j = 2 * n + 2 THEN Ev("free", "docIds", 0, "")
        ELSE IF j % 2 = 1 THEN Ev("free", "ids_", (j + 1) \div 2, "")
        ELSE Ev("free", "vals_", j \div 2, "")]

\* The end of the try block of add and knnSearch, by return or by unwinding:
\* datasetPtr goes out of scope and the Dataset, made with Owner(true),
\* frees its buffers.
DestroyDataset(m) ==
    IF m.crash \/ ~m.native.made \/ ~m.native.owner THEN m
    ELSE [m EXCEPT !.log = @ \o FreeEvents(m.native.numElements)]

\* A stream whose end of scope does not close it.
DestroyStreamLeavingOpen(m, which) == m

\* The end of the try block of serializeIndex and deserializeIndex, by return
\* or by unwinding: the destructor of the stream closes it if it is open.
DestroyStream(m, which) ==
    IF m.crash \/ m.stream # "open" THEN m
    ELSE [m EXCEPT !.log = Append(@, Ev("close", which, 0, "destructor")),
                   !.stream = "closed"]

\* ----------------------------------------------------------- Dispatch Layer
Ret(kind, n, arr) == [kind |-> kind, n |-> n, arr |-> arr]
RetNull == Ret("null", 0, <<>>)
RetVoid == Ret("void", 0, <<>>)
RetCrash == Ret("crash", 0, <<>>)

\* try { ... return value; } catch (...) {
\*     jniUtil.CatchCppExceptionAndThrowJava(env); return sentinel; }
Boundary(m, sentinel, value) ==
    IF m.crash THEN [m |-> m, ret |-> RetCrash, caught |-> None]
    ELSE IF m.exc # None
    THEN [m |-> CatchCppExceptionAndThrowJava(m), ret |-> sentinel, caught |-> m.exc]
    ELSE [m |-> m, ret |-> value, caught |-> None]

\* new std::shared_ptr<vsag::Index>(...) at address addr (0: the heap has
\* nothing left to hand out).
NewBox(m, addr, fault) ==
    IF ~Running(m) THEN m
    ELSE IF fault.at = "alloc_box" \/ addr = 0
    THEN Throw(m, Exc("bad_alloc", "std::bad_alloc"))
    ELSE [Emit(m, Ev("new", "box", addr, "")) EXCEPT !.box = addr]

\* Java_..._createIndex
createIndexBody(m, jIndexType, jBuildParams, fault, addr) ==
    LET m1 == ConvertJavaStringToCppString(m, jIndexType, 1, fault)
        m2 == ConvertJavaStringToCppString(m1, jBuildParams, 2, fault)
        m3 == LibCall(m2, "CreateIndex", fault)
        m4 == ThrowIfError(m3, fault, "Failed to create the index using vsag lib. Error: ")
        m5 == NewBox(m4, addr, fault)
    IN Boundary(m5, Ret("jlong", 0, <<>>), Ret("jlong", m5.box, <<>>))

\* The identifiers Add reports as not inserted.
FailedIds(jDataSet, fault) ==
    IF fault.at = "lib_partial" THEN [i \in 1..Len(jDataSet) |-> jDataSet[i].docId]
    ELSE <<>>

\* Java_..._add
addBody(m, jIndexPtr, jDataSet, fault, ub, abi, heapNow) ==
    LET m1 == GetIndexPtr(m, jIndexPtr, heapNow, ub)
        m2 == ConvertJavaDatasetToCppDatasetPtr(m1, jDataSet, fault, abi)
        m3 == LibCall(m2, "Add", fault)
        m4 == ThrowIfError(m3, fault, "vsag::Index::Add failed: ")
        m5 == ConvertCppLongArrayToJavaLongArray(m4, FailedIds(jDataSet, fault), fault)
        m6 == DestroyDataset(m5)
    IN Boundary(m6, RetNull, Ret("array", Len(m6.arr), m6.arr))

\* Java_..._knnSearch
knnSearchBody(m, jIndexPtr, jDataSet, jSearchParams, result, fault, ub, abi, heapNow) ==
    LET m1 == GetIndexPtr(m, jIndexPtr, heapNow, ub)
        m2 == ConvertJavaDatasetToCppDatasetPtr(m1, jDataSet, fault, abi)
        m3 == ConvertJavaStringToCppString(m2, jSearchParams, 1, fault)
        m4 == LibCall(m3, "KnnSearch", fault)
        m5 == ThrowIfError(m4, fault, "vsag::Index::KnnSearch failed: ")
        m6 == ConvertCppSearchResultsToJava(m5, result, fault, ub)
        m7 == DestroyDataset(m6)
    IN Boundary(m7, RetNull, Ret("array", Len(m7.arr), m7.arr))

\* std::ofstream out_stream(filePath) / std::ifstream in_stream(filePath);
\* if (!stream.is_open()) throw
OpenStream(m, which, fault, message) ==
    IF ~Running(m) THEN m
    ELSE IF fault.at = "open_fail"
    THEN Throw(Emit(m, Ev("open_failed", which, 0, m.str)),
               Exc("runtime_error", message \o m.str))
    ELSE [Emit(m, Ev("open", which, 0, m.str)) EXCEPT !.stream = "open"]

\* stream.close()
CloseStream(m, which) ==
    IF ~Running(m) THEN m
    ELSE [Emit(m, Ev("close", which, 0, "close")) EXCEPT !.stream = "closed"]

\* Java_..._serializeIndex
serializeIndexBody(m, jIndexPtr, jFilePath, fault, ub, heapNow) ==
    LET m1 == GetIndexPtr(m, jIndexPtr, heapNow, ub)
        m2 == ConvertJavaStringToCppString(m1, jFilePath, 1, fault)
        m3 == OpenStream(m2, "out", fault, "Failed to open file for writing: ")
        m4 == LibCall(m3, "Serialize", fault)
        m5 == CloseStream(m4, "out")
        m6 == ThrowIfError(m5, fault, "Index serialization failed: ")
        m7 == DestroyStream(m6, "out")
    IN Boundary(m7, RetVoid, RetVoid)

\* Java_..._deserializeIndex
deserializeIndexBody(m, jIndexPtr, jFilePath, fault, ub, heapNow) ==
    LET m1 == GetIndexPtr(m, jIndexPtr, heapNow, ub)
        m2 == ConvertJavaStringToCppString(m1, jFilePath, 1, fault)
        m3 == OpenStream(m2, "in", fault, "Failed to open file for reading: ")
        m4 == LibCall(m3, "Deserialize", fault)
        m5 == CloseStream(m4, "in")
        m6 == ThrowIfError(m5, fault, "Index deserialization failed: ")
        m7 == DestroyStream(m6, "in")
    IN Boundary(m7, RetVoid, RetVoid)

\* A release that forgets the delete.
cleanupBodyNoDelete(m, jIndexPtr, heapNow, ub) == Boundary(m, RetVoid, RetVoid)

\* A release that resolves the handle as the other operations do, and so
\* refuses the zero handle.
cleanupBodyResolving(m, jIndexPtr, heapNow, ub) ==
    LET m1 == GetIndexPtr(m, jIndexPtr, heapNow, "benign")
        m2 == Emit(m1, Ev("delete", "box", jIndexPtr, ""))
        m3 == IF Running(m2) /\ heapNow[jIndexPtr] # "live" /\ ub = "crash"
              THEN [m2 EXCEPT !.crash = TRUE] ELSE m2
    IN Boundary(m3, RetVoid, RetVoid)

\* Java_..._cleanup: delete sharedIndexPtr, for every handle but zero;
\* deleting a box that is not live is undefined.
cleanupBody(m, jIndexPtr, heapNow, ub) ==
    IF jIndexPtr = 0 THEN Boundary(m, RetVoid, RetVoid)
    ELSE LET m1 == Emit(m, Ev("delete", "box", jIndexPtr, ""))
             m2 == IF heapNow[jIndexPtr] # "live" /\ ub = "crash"
                   THEN [m1 EXCEPT !.crash = TRUE] ELSE m1
         IN Boundary(m2, RetVoid, RetVoid)

\* ------------------------------------------------------------------ inputs
JStrings == {NullStr, JStr("p")}

StringFaults(k) == {Fault("utf_oom", k), Fault("utf_null", k), Fault("str_alloc", k)}

LibFaults == {Fault("lib_err", 0)} \cup {Fault(t, 0) : t \in LibThrows}

DecodeFaults(n) ==
    {Fault("alloc_svVec", 0), Fault("alloc_docIds", 0)}
    \cup {Fault("alloc_ids_", i) : i \in 1..n} \cup {Fault("alloc_vals_", i) : i \in 1..n}

\* The weights of a record are told apart by record and position.
WeightOf(docId, j) == 10 * docId + j

SubscriptVals == {0 - 1, 3}
DocIds == {1, 2}

RECURSIVE SeqsUpTo(_, _)
SeqsUpTo(S, n) ==
    IF n = 0 THEN {<<>>}
    ELSE LET shorter == SeqsUpTo(S, n - 1)
         IN shorter \cup {Append(q, x) : q \in {r \in shorter : Len(r) = n - 1}, x \in S}

\* Records whose subscripts and weights both have size length.
Records ==
    {Rec(d, Len(ids), ids, [j \in 1..Len(ids) |-> WeightOf(d, j)]) :
        d \in DocIds, ids \in SeqsUpTo(SubscriptVals, MaxLen)}

\* A record whose length accessor answers a negative number.
NegativeRecord == Rec(1, 0 - 1, <<>>, <<>>)

Datasets == SeqsUpTo(Records, MaxN)

\* The datasets the operations are given in the life-cycle specification.
SmallDatasets ==
    {<<>>,
     <<Rec(1, 2, <<3, 0 - 1>>, <<11, 12>>)>>,
     <<NegativeRecord>>,
     <<Rec(1, 1, <<0 - 2147483647 - 1>>, <<11>>), Rec(2, 0, <<>>, <<>>)>>}

CanonDataset == <<Rec(1, 1, <<3>>, <<11>>), Rec(2, 1, <<0 - 1>>, <<21>>)>>

ResultIds == {4, 9}
Distances == {0 - 1, 0, 2}

Results ==
    {ResultDataset(p[1], p[2]) :
        p \in {q \in SeqsUpTo(ResultIds, MaxK) \X SeqsUpTo(Distances, MaxK) :
                  Len(q[1]) = Len(q[2])}}

CanonResult == ResultDataset(<<4, 9>>, <<0, 2>>)

SmallResults == {ResultDataset(<<>>, <<>>), CanonResult}

\* ----------------------------------------------------------------- actions
\* The host runtime makes a call (Call), the operation runs as one step (the
\* action of its name) and the host takes the result (Return).  last holds
\* the call in its three stages: "idle", "call" with the arguments, "done"
\* with the arguments, what the environment answered and the outcome.
LastOf(stage, op, h, strs, ds, res, fault, ub, abi, pre, b) ==
    [stage |-> stage, op |-> op, handle |-> h, strs |-> strs, ds |-> ds, res |-> res,
     fault |-> fault, ub |-> ub, abi |-> abi, pre |-> pre,
     ret |-> b.ret, caught |-> b.caught, pend |-> b.m.pend, log |-> b.m.log,
     native |-> b.m.native, str |-> b.m.str, stream |-> b.m.stream]

Idle == [m |-> M0(NoClasses, {}), ret |-> RetVoid, caught |-> None]

NoResult == ResultDataset(<<>>, <<>>)

LastNone ==
    LastOf("idle", "none", 0, <<>>, <<>>, NoResult, NoFault, "benign", "raw", "none", Idle)

Pending(op, h, strs, ds, res) ==
    LastOf("call", op, h, strs, ds, res, NoFault, "benign", "raw", "none", Idle)

Called(op) == ~crashed /\ last.stage = "call" /\ last.op = op

\* delete expressions of a call on the box at address a.
Deletes(log, a) == Cardinality({i \in DOMAIN log : log[i] = Ev("delete", "box", a, "")})

\* The status of the box a handle names, as the call finds it.
Pre(h) == IF h = 0 THEN "none" ELSE heap[h]

\* The choices undefined behaviour has in a call: it is reached on a handle
\* whose box is not live, and on a JNI call made with an exception pending.
UbChoices(h, fault) ==
    IF (h # 0 /\ heap[h] # "live") \/ fault.at = "new_object"
    THEN {"crash", "benign"} ELSE {"benign"}

\* The handles a caller holds: zero and every handle createIndex returned.
IssuedHandles == {0} \cup {a \in Addrs : heap[a] # "unalloc"}

\* The addresses the allocator may hand out next: any that holds no live box.
NextAddrs ==
    LET free == {a \in Addrs : heap[a] # "live"}
    IN IF free = {} THEN {0} ELSE free

\* The effect of a finished call on the state of the process.
Effect(b, lastNow) ==
    /\ cachedClasses' = b.m.classes
    /\ cachedMethods' = b.m.methods
    /\ heap' = [a \in Addrs |->
                  IF b.m.box = a THEN "live"
                  ELSE IF Deletes(b.m.log, a) > 0 /\ heap[a] = "live" THEN "freed"
                  ELSE heap[a]]
    /\ deallocs' = [a \in Addrs |->
                      IF b.m.box = a THEN 0 ELSE deallocs[a] + Deletes(b.m.log, a)]
    /\ crashed' = b.m.crash
    /\ last' = lastNow
    /\ UNCHANGED <<phase, globalRefs>>

\* JNI_OnLoad: GetEnv, then jniUtil.Initialize(env).
JNI_OnLoad ==
    /\ ~crashed /\ last.stage = "idle" /\ phase = "init"
    /\ \E envOk \in BOOLEAN :
         IF envOk
         THEN /\ phase' = "loaded"
              /\ cachedClasses' = InitializeClasses
              /\ cachedMethods' = InitializeMethods
              /\ globalRefs' = [c \in ClassesToCache |->
                                  globalRefs[c] + (IF c \in DOMAIN InitializeClasses THEN 1 ELSE 0)]
         ELSE UNCHANGED <<phase, cachedClasses, cachedMethods, globalRefs>>
    /\ UNCHANGED <<heap, deallocs, cleanups, crashed, last>>

\* An unload that clears both maps and deletes no global reference.
JNI_OnUnloadLeakingRefs ==
    /\ ~crashed /\ last.stage = "idle" /\ phase = "loaded"
    /\ phase' = "unloaded"
    /\ cachedClasses' = NoClasses
    /\ cachedMethods' = {}
    /\ UNCHANGED <<globalRefs, heap, deallocs, cleanups, crashed, last>>

\* JNI_OnUnload: jniUtil.Uninitialize(env) deletes the global reference of
\* every cached class and clears both maps.
JNI_OnUnload ==
    /\ ~crashed /\ last.stage = "idle" /\ phase = "loaded"
    /\ phase' = "unloaded"
    /\ globalRefs' = [c \in ClassesToCache |->
                        globalRefs[c] - (IF c \in DOMAIN cachedClasses THEN 1 ELSE 0)]
    /\ cachedClasses' = NoClasses
    /\ cachedMethods' = {}
    /\ UNCHANGED <<heap, deallocs, cleanups, crashed, last>>

\* The host runtime calls an operation.  An injected fault is followed on the
\* canonical arguments only (see the operations below).
Call ==
    /\ ~crashed /\ last.stage = "idle"
    /\ \/ \E s1 \in JStrings, s2 \in JStrings :
             last' = Pending("createIndex", 0, <<s1, s2>>, <<>>, NoResult)
       \/ \E h \in IssuedHandles, ds \in SmallDatasets \cup {CanonDataset} :
             last' = Pending("add", h, <<>>, ds, NoResult)
       \/ \E h \in IssuedHandles, ds \in SmallDatasets \cup {CanonDataset}, js \in JStrings :
             /\ js.null => ds = CanonDataset
             /\ last' = Pending("knnSearch", h, <<js>>, ds, NoResult)
       \/ \E h \in IssuedHandles, js \in JStrings :
             last' = Pending("serializeIndex", h, <<js>>, <<>>, NoResult)
       \/ \E h \in IssuedHandles, js \in JStrings :
             last' = Pending("deserializeIndex", h, <<js>>, <<>>, NoResult)
       \/ \E h \in IssuedHandles :
             /\ h # 0 => deallocs[h] < MaxDeallocs
             /\ last' = Pending("cleanup", h, <<>>, <<>>, NoResult)
    /\ UNCHANGED <<phase, cachedClasses, cachedMethods, globalRefs, heap, deallocs,
                   cleanups, crashed>>

\* The host runtime takes the result of the call.
Return ==
    /\ ~crashed /\ last.stage = "done"
    /\ last' = LastNone
    /\ UNCHANGED <<phase, cachedClasses, cachedMethods, globalRefs, heap, deallocs,
                   cleanups, crashed>>

ValidStrings(strs) == \A k \in DOMAIN strs : ~strs[k].null

createIndex ==
    /\ Called("createIndex")
    /\ \E fault \in {NoFault} \cup
                    (IF ValidStrings(last.strs)
                     THEN StringFaults(1) \cup StringFaults(2) \cup LibFaults
                          \cup {Fault("alloc_box", 0)}
                     ELSE {}) :
       \E addr \in NextAddrs :
          LET b == createIndexBody(M0(cachedClasses, cachedMethods), last.strs[1],
                                   last.strs[2], fault, addr)
          IN /\ Effect(b, LastOf("done", "createIndex", 0, last.strs, <<>>, NoResult,
                                 fault, "benign", "raw", "none", b))
             /\ cleanups' = [a \in Addrs |-> IF b.m.box = a THEN 0 ELSE cleanups[a]]

add ==
    /\ Called("add")
    /\ \E fault \in {NoFault} \cup
                    (IF last.ds = CanonDataset
                     THEN DecodeFaults(Len(last.ds)) \cup LibFaults
                          \cup {Fault("lib_partial", 0), Fault("new_long_array", 0)}
                     ELSE {}) :
       \E abi \in (IF fault = NoFault /\ last.ds # <<>> THEN {"raw", "ref"} ELSE {"raw"}) :
       \E ub \in UbChoices(last.handle, fault) :
          LET b == addBody(M0(cachedClasses, cachedMethods), last.handle, last.ds, fault,
                           ub, abi, heap)
          IN /\ Effect(b, LastOf("done", "add", last.handle, <<>>, last.ds, NoResult,
                                 fault, ub, abi, Pre(last.handle), b))
             /\ UNCHANGED cleanups

knnSearch ==
    /\ Called("knnSearch")
    /\ \E fault \in {NoFault} \cup
                    (IF last.ds = CanonDataset /\ ValidStrings(last.strs)
                     THEN DecodeFaults(Len(last.ds)) \cup StringFaults(1) \cup LibFaults
                          \cup {Fault("new_object_array", 0)}
                          \cup {Fault("new_object", i) : i \in 1..CanonResult.dim}
                     ELSE {}) :
       \E res \in (IF last.res # NoResult THEN {last.res}
                   ELSE IF fault = NoFault THEN SmallResults ELSE {CanonResult}) :
       \E ub \in UbChoices(last.handle, fault) :
          LET b == knnSearchBody(M0(cachedClasses, cachedMethods), last.handle, last.ds,
                                 last.strs[1], res, fault, ub, "raw", heap)
          IN /\ Effect(b, LastOf("done", "knnSearch", last.handle, last.strs, last.ds, res,
                                 fault, ub, "raw", Pre(last.handle), b))
             /\ UNCHANGED cleanups

FileFaults(strs) ==
    {NoFault} \cup
    (IF ValidStrings(strs)
     THEN {Fault("open_fail", 0)} \cup StringFaults(1) \cup LibFaults ELSE {})

serializeIndex ==
    /\ Called("serializeIndex")
    /\ \E fault \in FileFaults(last.strs) :
       \E ub \in UbChoices(last.handle, fault) :
          LET b == serializeIndexBody(M0(cachedClasses, cachedMethods), last.handle,
                                      last.strs[1], fault, ub, heap)
          IN /\ Effect(b, LastOf("done", "serializeIndex", last.handle, last.strs, <<>>,
                                 NoResult, fault, ub, "raw", Pre(last.handle), b))
             /\ UNCHANGED cleanups

deserializeIndex ==
    /\ Called("deserializeIndex")
    /\ \E fault \in FileFaults(last.strs) :
       \E ub \in UbChoices(last.handle, fault) :
          LET b == deserializeIndexBody(M0(cachedClasses, cachedMethods), last.handle,
                                        last.strs[1], fault, ub, heap)
          IN /\ Effect(b, LastOf("done", "deserializeIndex", last.handle, last.strs, <<>>,
                                 NoResult, fault, ub, "raw", Pre(last.handle), b))
             /\ UNCHANGED cleanups

cleanup ==
    /\ Called("cleanup")
    /\ \E ub \in UbChoices(last.handle, NoFault) :
          LET b == cleanupBody(M0(cachedClasses, cachedMethods), last.handle, heap, ub)
          IN /\ Effect(b, LastOf("done", "cleanup", last.handle, <<>>, <<>>, NoResult,
                                 NoFault, ub, "raw", Pre(last.handle), b))
             /\ cleanups' = [a \in Addrs |->
                               IF a = last.handle THEN cleanups[a] + 1 ELSE cleanups[a]]

Init ==
    /\ phase = "init"
    /\ cachedClasses = NoClasses
    /\ cachedMethods = {}
    /\ globalRefs = [c \in ClassesToCache |-> 0]
    /\ heap = [a \in Addrs |-> "unalloc"]
    /\ deallocs = [a \in Addrs |-> 0]
    /\ cleanups = [a \in Addrs |-> 0]
    /\ crashed = FALSE
    /\ last = LastNone

Operation ==
    \/ createIndex
    \/ add
    \/ knnSearch
    \/ serializeIndex
    \/ deserializeIndex
    \/ cleanup

Next ==
    \/ JNI_OnLoad
    \/ JNI_OnUnload
    \/ Call
    \/ Operation
    \/ Return

Spec == Init /\ [][Next]_vars

\* The codec on its whole input space: the process has loaded the library and
\* holds one index (a state Spec reaches), and one add or knnSearch call is
\* pending, with any dataset of the bounds or any result the library returns.
InitCodec ==
    /\ phase = "loaded"
    /\ cachedClasses = InitializeClasses
    /\ cachedMethods = InitializeMethods
    /\ globalRefs = [c \in ClassesToCache |-> 1]
    /\ heap = [a \in Addrs |-> IF a = 1 THEN "live" ELSE "unalloc"]
    /\ deallocs = [a \in Addrs |-> 0]
    /\ cleanups = [a \in Addrs |-> 0]
    /\ crashed = FALSE
    /\ last \in {Pending("add", 1, <<>>, ds, NoResult) : ds \in Datasets}
                 \cup {Pending("knnSearch", 1, <<JStr("p")>>, CanonDataset, res) :
                         res \in Results}

NextCodec ==
    \/ add
    \/ knnSearch

SpecCodec == InitCodec /\ [][NextCodec]_vars

\* ------------------------------------------------------------ properties
Done(op) == last.stage = "done" /\ last.op = op

HandleOps == {"add", "knnSearch", "serializeIndex", "deserializeIndex"}

Sentinel(op) ==
    IF op = "createIndex" THEN Ret("jlong", 0, <<>>)
    ELSE IF op \in {"add", "knnSearch"} THEN RetNull
    ELSE RetVoid

Count(log, k) == Cardinality({i \in DOMAIN log : log[i].k = k})

\* A failure was raised in the body of the last call: a C++ exception
\* reached the boundary, or the JVM raised an exception inside a JNI call.
FailureRaised ==
    \/ last.caught # None
    \/ \E i \in DOMAIN last.pend : last.pend[i].cls = OutOfMemoryCls

\* C1: every failure raised in the body of an operation ends with the
\* operation returning normally, its sentinel returned and a managed
\* exception raised; no native failure passes the boundary.
C1_FailureGivesSentinel ==
    (last.stage = "done" /\ FailureRaised) =>
        /\ last.ret = Sentinel(last.op)
        /\ last.pend # <<>>
        /\ ~crashed

\* C2 as stated: over any sequence of calls no box is deallocated twice.
C2_NeverDeallocatedTwice == \A a \in Addrs : deallocs[a] <= 1

\* C2, amended: a cleanup call with a non-zero handle deletes the box of that
\* handle exactly once in that call, no other operation deletes a box, and so
\* a box has been deallocated as many times as cleanup was called for its
\* handle: once when the caller releases each handle once.
C2_OneDeletePerCleanup ==
    /\ (Done("cleanup") /\ last.handle # 0) =>
          \A a \in Addrs : Deletes(last.log, a) = (IF a = last.handle THEN 1 ELSE 0)
    /\ (last.stage = "done" /\ ~(Done("cleanup") /\ last.handle # 0)) =>
          Count(last.log, "delete") = 0
    /\ \A a \in Addrs :
          /\ deallocs[a] = cleanups[a]
          /\ heap[a] = "live" => deallocs[a] = 0
          /\ heap[a] = "freed" => deallocs[a] >= 1

C2_Witness ==
    /\ Done("cleanup") /\ last.handle # 0 /\ last.pre = "live"
    /\ heap[last.handle] = "freed" /\ deallocs[last.handle] = 1

\* C3: cleanup with handle 0 deallocates nothing, raises no managed
\* exception and leaves every handle and the descriptor cache as they were.
C3_CleanupZeroIsNoOp ==
    [][(Called("cleanup") /\ last.handle = 0) =>
         /\ last'.stage = "done"
         /\ last'.log = <<>> /\ last'.pend = <<>> /\ last'.caught = None
         /\ last'.ret = RetVoid
         /\ ~crashed'
         /\ heap' = heap /\ deallocs' = deallocs
         /\ cachedClasses' = cachedClasses /\ cachedMethods' = cachedMethods]_vars

C3_Witness ==
    /\ Done("cleanup") /\ last.handle = 0
    /\ \E a \in Addrs : heap[a] = "live"
    /\ phase = "loaded"

\* C4: add, knnSearch, serializeIndex and deserializeIndex on handle 0 raise
\* the generic managed exception, return their sentinel, call nothing in the
\* index library and open no file.
C4_ZeroHandleRefused ==
    (last.stage = "done" /\ last.op \in HandleOps /\ last.handle = 0) =>
        /\ last.pend = <<Managed(ExceptionCls, "Invalid native index pointer (nullptr)")>>
        /\ last.ret = Sentinel(last.op)
        /\ Count(last.log, "lib") = 0
        /\ Count(last.log, "open") = 0 /\ Count(last.log, "open_failed") = 0
        /\ ~crashed

C4_Witness ==
    /\ Done("serializeIndex") /\ last.handle = 0 /\ \E a \in Addrs : heap[a] = "live"
    /\ last.pend # <<>>

\* The ThrowNew calls of a call, in order.
Raised(log) == SelectSeq(log, LAMBDA e : e.k = "ThrowNew")

\* C5: a caught allocation failure raises java/io/IOException; a runtime
\* error or any other exception raises java/lang/Exception with its message;
\* anything else raises java/lang/Exception "Unknown exception occurred";
\* and each caught failure raises exactly one managed exception.
C5_TranslateTable ==
    (last.stage = "done" /\ last.caught # None) =>
        /\ Len(Raised(last.log)) = 1
        /\ LET r == Raised(last.log)[1]
               t == last.caught.type
           IN /\ t \in {"bad_alloc", "bad_array_new_length"} => r.a = IOExceptionCls
              /\ t \in {"runtime_error", "system_error"} =>
                     r.a = ExceptionCls /\ r.s = last.caught.msg
              /\ t \in {"exception", "logic_error", "invalid_argument"} =>
                     r.a = ExceptionCls /\ r.s = last.caught.msg
              /\ t = "nonstd" =>
                     r.a = ExceptionCls /\ r.s = "Unknown exception occurred"
              /\ last.pend[Len(last.pend)] = Managed(r.a, r.s)

C5_Witness ==
    /\ Done("add") /\ last.fault.at = "new_long_array"
    /\ last.caught.type = "bad_alloc"
    /\ Raised(last.log) = <<Ev("ThrowNew", IOExceptionCls, 0, "std::bad_alloc")>>

\* C6: a stream serializeIndex or deserializeIndex opened is closed when the
\* operation returns, whether the library call succeeded, reported an error
\* or threw; and a file that cannot be opened means no library call.
C6_StreamClosed ==
    (last.stage = "done" /\ last.op \in {"serializeIndex", "deserializeIndex"}
        /\ last.ret # RetCrash) =>
        /\ last.stream # "open"
        /\ Count(last.log, "open") = Count(last.log, "close")
        /\ Count(last.log, "open") <= 1
        /\ Count(last.log, "open_failed") > 0 =>
              (Count(last.log, "lib") = 0 /\ last.pend # <<>>)
        /\ Count(last.log, "lib") > 0 => Count(last.log, "open") = 1

C6_Witness ==
    /\ Done("serializeIndex") /\ last.fault.at \in LibThrows
    /\ last.stream = "closed" /\ Count(last.log, "lib") = 1

\* The place of the first failed lookup of a call (0: none failed).
FirstMiss(log) ==
    LET misses == {i \in DOMAIN log : log[i].k \in {"FindClass", "FindMethod"} /\ log[i].n = 0}
    IN IF misses = {} THEN 0 ELSE CHOOSE i \in misses : \A j \in misses : i <= j

IsMod32(u, v) ==
    /\ u.hi \in 0..65535 /\ u.lo \in 0..65535
    /\ IF v >= 0 THEN u.hi * 65536 + u.lo = v
       ELSE (u.hi - 32768) * 65536 + u.lo = (v + 2147483647) + 1

WellFormed(ds) ==
    \A i \in DOMAIN ds :
        ds[i].length >= 0 /\ Len(ds[i].ids) = ds[i].length /\ Len(ds[i].vals) = ds[i].length

\* C8: decoding a dataset of n records whose arrays have size length gives a
\* native Dataset of n vectors in order, vector i with the identifier, the
\* length, the weights and the subscripts modulo 2^32 of record i, and the
\* ownership flag set.
C8_DecodeExact ==
    (Done("add") /\ last.fault = NoFault /\ WellFormed(last.ds) /\ last.ret # RetCrash) =>
        /\ last.native.made /\ last.native.owner
        /\ last.native.numElements = Len(last.ds)
        /\ Len(last.native.sv) = Len(last.ds) /\ Len(last.native.ids) = Len(last.ds)
        /\ \A i \in DOMAIN last.ds :
              /\ last.native.ids[i] = last.ds[i].docId
              /\ last.native.sv[i].len = last.ds[i].length
              /\ Len(last.native.sv[i].ids) = last.ds[i].length
              /\ Len(last.native.sv[i].vals) = last.ds[i].length
              /\ last.native.sv[i].vals = last.ds[i].vals
              /\ \A j \in 1..last.ds[i].length :
                    IsMod32(last.native.sv[i].ids[j], last.ds[i].ids[j])

\* C9: encoding a native result of c results gives a managed array of c
\* records, record i with the i-th identifier and score 1 - distance[i], in
\* order and with no slot left empty.
C9_EncodeExact ==
    (Done("knnSearch") /\ last.fault = NoFault /\ last.caught = None
        /\ last.ret # RetCrash) =>
        /\ last.ret.kind = "array"
        /\ Len(last.ret.arr) = last.res.dim
        /\ \A i \in 1..last.res.dim :
              /\ ~last.ret.arr[i].null
              /\ last.ret.arr[i].id = last.res.ids[i]
              /\ last.ret.arr[i].score = 1 - last.res.distances[i]

C9_Witness ==
    /\ Done("knnSearch") /\ last.fault = NoFault /\ last.res.dim = 2
    /\ last.res.ids = <<9, 4>> /\ last.res.distances = <<2, 0 - 1>>
    /\ last.ret.kind = "array" /\ Len(last.ret.arr) = 2

\* C10: every view or reference a conversion step acquired is released
\* before the step ends, on every path, and in Decode the views of element i
\* are released before element i + 1 is read.
C10_ViewsReleased ==
    (last.stage = "done" /\ last.ret # RetCrash) =>
        \A i \in DOMAIN last.log :
            last.log[i].k = "acquire" =>
                /\ \E j \in DOMAIN last.log :
                      /\ j > i
                      /\ last.log[j] = [last.log[i] EXCEPT !.k = "release"]
                      /\ \A x \in (i + 1)..(j - 1) :
                            last.log[x].k = "acquire" => last.log[x].n = last.log[i].n

\* A call into the managed runtime or the index library.
IsCall(e) == e.k \in {"jni", "acquire", "release", "ThrowNew", "lib"}

\* The managed-runtime calls of Decode and Encode whose failure shows only as
\* a pending exception: the accessor calls, the array-element reads and the
\* construction of a result record.
PendingOnly(e) ==
    \/ e.k = "jni" /\ e.a \in {"CallObjectMethod:getSparseVectors",
                               "CallIntMethod:getLength",
                               "CallObjectMethod:getDocId", "NewObject"}
    \/ e.k = "acquire" /\ e.a \in {"jIds", "jValues", "idsElems", "valsElems"}

\* A CheckPending lies strictly between places i and j of the log.
CheckedBetween(log, i, j) ==
    \E c \in (i + 1)..(j - 1) : log[c].k = "CheckPending"

\* C11: after every managed-runtime call whose failure shows only as a
\* pending exception (a failed string extraction, the accessor calls and
\* array reads of Decode, the record construction of Encode) CheckPending is
\* invoked before the next call into the managed runtime or the library.
C11_CheckedBeforeNextCall ==
    (last.stage = "done" /\ last.ret # RetCrash) =>
        \A i \in DOMAIN last.log :
            /\ PendingOnly(last.log[i]) =>
                  \A j \in DOMAIN last.log :
                      (j > i /\ IsCall(last.log[j])) => CheckedBetween(last.log, i, j)
            /\ (last.log[i] = Ev("jni", "GetStringUTFChars", last.fault.n, "")
                   /\ last.fault.at \in {"utf_oom", "utf_null"}) =>
                  /\ i < Len(last.log)
                  /\ last.log[i + 1].k = "CheckPending"

\* The native buffers Decode allocates.
DecodeBuffers == {"svVec", "docIds", "ids_", "vals_"}

\* The places of the log where buffer what of element n is freed.
Frees(log, what, n) ==
    {j \in DOMAIN log : log[j] = Ev("free", what, n, "")}

\* C12: every native buffer Decode allocated during an add or knnSearch call
\* is freed exactly once by the time the call returns, on success and on
\* every failure, and nothing is freed that was not allocated.
C12_BuffersFreed ==
    (last.stage = "done" /\ last.op \in {"add", "knnSearch"} /\ last.ret # RetCrash) =>
        \A i \in DOMAIN last.log :
            /\ (last.log[i].k = "new" /\ last.log[i].a \in DecodeBuffers) =>
                  /\ Cardinality(Frees(last.log, last.log[i].a, last.log[i].n)) = 1
                  /\ \A j \in Frees(last.log, last.log[i].a, last.log[i].n) : j > i
            /\ last.log[i].k = "free" =>
                  \E j \in 1..(i - 1) : last.log[j] = [last.log[i] EXCEPT !.k = "new"]

\* The lookups of a call: the FindClass and FindMethod events of its log.
Lookups(log) == {i \in DOMAIN log : log[i].k \in {"FindClass", "FindMethod"}}

\* C13: outside Initialize and Uninitialize no step changes the entries of
\* the descriptor cache or the global references; the classes the cache
\* owns are those whose global reference was acquired and not released;
\* Uninitialize releases the reference of every cached class once and
\* empties both maps, and every lookup made afterwards fails.
C13_CacheLifecycle ==
    [][/\ phase' = phase =>
            /\ cachedClasses' = cachedClasses
            /\ cachedMethods' = cachedMethods
            /\ globalRefs' = globalRefs
       /\ \A c \in ClassesToCache :
            globalRefs'[c] = (IF c \in DOMAIN cachedClasses' THEN 1 ELSE 0)
       /\ (phase = "loaded" /\ phase' = "unloaded") =>
            /\ DOMAIN cachedClasses = ClassesToCache
            /\ \A c \in DOMAIN cachedClasses : globalRefs[c] - globalRefs'[c] = 1
       /\ phase' = "unloaded" =>
            /\ cachedClasses' = NoClasses /\ cachedMethods' = {}
            /\ last'.stage = "done" =>
                  \A i \in Lookups(last'.log) : last'.log[i].n = 0]_vars

C13_Witness ==
    /\ phase = "unloaded" /\ Done("add") /\ last.pre = "live"
    /\ Lookups(last.log) # {}
    /\ \A c \in ClassesToCache : globalRefs[c] = 0

====
